---- MODULE Spec2Model ----
(***************************************************************************)
(* Tool_Auto_Trade: the auto-scan cycle (autoScanAll), its continuity      *)
(* policy over the last-signal store, the history log and the watchlist    *)
(* pass, together with the idea engine (scoreIdea / generateIdea) that     *)
(* produces the ideas the policy compares.                                 *)
(*                                                                         *)
(* Time is counted in whole minutes.  Every `await` of the code is a       *)
(* suspension point: the code between two awaits is one atomic action,     *)
(* and other handlers, the clock and other invocations of autoScanAll may  *)
(* run while an invocation is suspended.                                   *)
(***************************************************************************)
EXTENDS Integers, Sequences, FiniteSets, TLC

\* ----------------------------------------------------------------- bounds
MaxTime == 2       \* the clock stops this many minutes after startup

MaxPushes == 60    \* calls of pushHistoryRecord on one history file
MaxBosBars == 3    \* bars given to detectBOS, and its largest lookback
MaxFvgBars == 6    \* bars given to detectFVG
MaxObBars == 7     \* bars given to detectOrderBlock
MaxPatPx == 6      \* detectCandlePattern: prices are in 1..MaxPatPx
MaxLiqBars == 31   \* bars given to detectLiquidityZone
MaxIdeaPrice == 60 \* prices 1..MaxIdeaPrice (units of 1e-6) are all tried
NearFull == 10     \* free entries left in a history file persisted nearly full
MaxManual == 2     \* manual scans recorded before the chat handlers stop
MaxThreshold == 11 \* SCORE_THRESHOLD is tried from 0 up to this value
MaxCycles == 4     \* invocations of autoCycle the interval timer starts

\* ----------------------------------------------------------------- config
ADMIN_ID == "admin"
AUTO_COINS == <<"BTCUSDT", "ETHUSDT">>
\* process.env.AUTO_INTERVAL_MIN (minutes); the deployment sets it, the
\* fallback when the variable is absent is 15
AUTO_INTERVAL_MIN == 2
RESEND_NOT_OK_MIN == 5     \* 5 * 60 * 1000 ms
RESEND_WEAKER_MIN == 10    \* 10 * 60 * 1000 ms
HISTORY_MAX == 2000

Chats == {ADMIN_ID, "u1"}
GrantTargets == {"u1"}
WatchSymbols == {"ETHUSDT"}
Prices == {100}            \* newest close, in units of 1e-6

\* one slot per invocation of autoScanAll the timer can start before MaxTime
Slots == 1..(MaxTime \div AUTO_INTERVAL_MIN + 1)
CoinSet == {AUTO_COINS[k] : k \in 1..Len(AUTO_COINS)}

VARIABLES
  catchSend,        \* FALSE: autoScanAll without per-message try/catch;
                    \* TRUE: the autoScanAll that wraps each send in try/catch
  now,              \* Date.now(), minutes
  nextFire,         \* when the interval timer fires next
  lastSignalsFile,  \* last_signals.json: symbol -> stored record
  historyFile,      \* history.json, newest first
  watchFile,        \* watchlist.json: chat id -> list of symbols
  permsUsers,       \* permissions.json .users
  cyc,              \* per invocation slot: position and locals of autoScanAll
  ev,               \* the operation that produced the current state, with
                    \* what it saw before acting (observation only)
  call,             \* a function of the engine under test: its arguments,
                    \* then its arguments and what it returned
  rotateIndex       \* `let rotateIndex = 0` of the rotation variant

vars == <<catchSend, now, nextFire, lastSignalsFile, historyFile, watchFile,
          permsUsers, cyc, ev, call, rotateIndex>>

\* ------------------------------------------------------------ idea engine
\* detector outputs by presence; bos "" is null
Sig(bos, fvg, bull, bear, pattern, liq) ==
  [bos |-> bos, fvg |-> fvg, ob |-> [bullish |-> bull, bearish |-> bear],
   pattern |-> pattern, liq |-> liq]
\* (variant: the liquidity zone weighs as much as the order block)
scoreIdea_liq2(g) ==
  (IF g.bos # "" THEN 3 ELSE 0)
  + (IF g.fvg THEN 3 ELSE 0)
  + (IF g.ob.bullish \/ g.ob.bearish THEN 2 ELSE 0)
  + (IF g.liq THEN 2 ELSE 0)
  + (IF g.pattern THEN 1 ELSE 0)
scoreIdea(g) ==
  (IF g.bos # "" THEN 3 ELSE 0)
  + (IF g.fvg THEN 3 ELSE 0)
  + (IF g.ob.bullish \/ g.ob.bearish THEN 2 ELSE 0)
  + (IF g.liq THEN 1 ELSE 0)
  + (IF g.pattern THEN 1 ELSE 0)

\* +(x).toFixed(6) of price * pct / 100, prices in units of 1e-6
Round6(price, pct) == (price * pct + 50) \div 100

Abs(x) == IF x < 0 THEN 0 - x ELSE x
\* Math.abs((tp - entry) / (entry - sl)).toFixed(2), in hundredths; a zero
\* divisor gives NaN (0/0) or Infinity
RiskReward(entry, sl, tp) ==
  LET a == Abs(tp - entry)
      b == Abs(entry - sl)
  IN IF b = 0 THEN [kind |-> IF a = 0 THEN "NaN" ELSE "Infinity", x100 |-> 0]
     ELSE [kind |-> "number", x100 |-> (200 * a + b) \div (2 * b)]

\* const ok = (dir && fvg && (ob && (ob.bullish || ob.bearish)) && liq
\*             && score >= 6)
\* (variant: the liquidity zone is not required)
Confluence_noLiq(dir, g, score) ==
  dir # "" /\ g.fvg /\ (g.ob.bullish \/ g.ob.bearish) /\ score >= 6
Confluence(dir, g, score) ==
  dir # "" /\ g.fvg /\ (g.ob.bullish \/ g.ob.bearish) /\ g.liq /\ score >= 6

\* the tags of the features that fired, in the order the note lists them
\* (which FVG and which pattern fired is not kept: g has them by presence)
Note(g) ==
  <<g.bos, IF g.fvg THEN "FVG" ELSE "",
    IF g.ob.bullish THEN "OB_BULL" ELSE "",
    IF g.ob.bearish THEN "OB_BEAR" ELSE "",
    IF g.pattern THEN "PATTERN" ELSE "",
    IF g.liq THEN "LIQUIDITY_ZONE" ELSE "">>

generateIdea(symbol, price, g) ==
  LET dir == IF g.bos = "BOS_UP" THEN "LONG"
             ELSE IF g.bos = "BOS_DOWN" THEN "SHORT" ELSE ""
      score == scoreIdea(g)
      ok == Confluence(dir, g, score)
      sl == IF dir = "LONG" THEN Round6(price, 99) ELSE Round6(price, 101)
      tp == IF dir = "LONG" THEN Round6(price, 102) ELSE Round6(price, 98)
  IN IF ~ok
     THEN [ok |-> FALSE, reason |-> "Not enough confluence", score |-> score]
     ELSE [ok |-> TRUE, symbol |-> symbol, dir |-> dir, entry |-> price,
           sl |-> sl, tp |-> tp, rr |-> RiskReward(price, sl, tp),
           note |-> Note(g), score |-> score]

\* -------------------------------------------------------------- detectors
\* a bar of fetchKlines; prices and volumes are whole numbers here
Bar(t, o, h, l, c, v) ==
  [t |-> t, open |-> o, high |-> h, low |-> l, close |-> c, vol |-> v]
Null == [type |-> "null"]
\* t is the position in the sequence
Timed(q) == [j \in DOMAIN q |-> [q[j] EXCEPT !.t = j]]
SetMax(S) == CHOOSE x \in S : \A y \in S : y <= x
SetMin(S) == CHOOSE x \in S : \A y \in S : x <= y

\* `last.close > recentHigh`
\* (variant: touching the level breaks it)
BreaksUp_geq(close, recentHigh) == close >= recentHigh
BreaksUp(close, recentHigh) == close > recentHigh

\* lookback >= 2 here (the callers pass 20 and 12): the window has bars
\* before the newest one
detectBOS(candles, lookback) ==
  IF Len(candles) < lookback THEN Null
  ELSE LET slice == SubSeq(candles, Len(candles) - lookback + 1, Len(candles))
           last == slice[Len(slice)]
           recentHigh == SetMax({slice[j].high : j \in 1..(Len(slice) - 1)})
           recentLow == SetMin({slice[j].low : j \in 1..(Len(slice) - 1)})
       IN IF BreaksUp(last.close, recentHigh)
          THEN [type |-> "BOS_UP", price |-> last.close]
          ELSE IF last.close < recentLow
               THEN [type |-> "BOS_DOWN", price |-> last.close]
               ELSE Null

\* `body > range * 0.6`, range = (c.high - c.low) || 1
\* (variant: a body of exactly 0.6 of the range qualifies)
StrongBody_geq(c) ==
  LET body == IF c.close < c.open THEN c.open - c.close ELSE c.close - c.open
      range == IF c.high - c.low = 0 THEN 1 ELSE c.high - c.low
  IN 10 * body >= 6 * range
StrongBody(c) ==
  LET body == IF c.close < c.open THEN c.open - c.close ELSE c.close - c.open
      range == IF c.high - c.low = 0 THEN 1 ELSE c.high - c.low
  IN 10 * body > 6 * range

NoBlocks == [bullish |-> Null, bearish |-> Null]
\* for (let i = 0; i < last5.length; i++): i is 1-based here
RECURSIVE OBScan(_, _, _)
OBScan(last5, i, blocks) ==
  IF i > Len(last5) THEN blocks
  ELSE LET c == last5[i]
           nb == IF StrongBody(c)
                 THEN IF c.close > c.open THEN [blocks EXCEPT !.bullish = c]
                      ELSE [blocks EXCEPT !.bearish = c]
                 ELSE blocks
       IN OBScan(last5, i + 1, nb)

detectOrderBlock(candles) ==
  IF Len(candles) < 6 THEN NoBlocks
  ELSE OBScan(SubSeq(candles, Len(candles) - 5, Len(candles) - 1), 1, NoBlocks)

\* `let i = candles.length - 3`; i, and idx in the result, count from 0 as in
\* the code: candles[i] is the (i + 1)-th bar
\* (variant: the scan starts at the newest bar)
FVGStart_newest(len) == len - 1
FVGStart(len) == len - 3

RECURSIVE FVGScan(_, _)
FVGScan(candles, i) ==
  IF i < 2 THEN Null
  ELSE LET c == candles[i + 1]
           c2 == candles[i - 1]
       IN IF c.low > c2.high
          THEN [type |-> "FVG_UP", idx |-> i, low |-> c2.high, high |-> c.low]
          ELSE IF c.high < c2.low
               THEN [type |-> "FVG_DOWN", idx |-> i, low |-> c.high,
                     high |-> c2.low]
               ELSE FVGScan(candles, i - 1)

detectFVG(candles) ==
  IF Len(candles) < 5 THEN Null
  ELSE FVGScan(candles, FVGStart(Len(candles)))

\* `upper > lower * 2`, `lower > upper * 2`
\* (variant: any longer wick counts)
LongerWick_any(a, b) == a > b
LongerWick(a, b) == a > 2 * b

\* "" is null
detectCandlePattern(candles) ==
  IF Len(candles) < 2 THEN ""
  ELSE LET last == candles[Len(candles)]
           prev == candles[Len(candles) - 1]
           body == Abs(last.close - last.open)
           range == IF last.high - last.low = 0 THEN 1
                    ELSE last.high - last.low
           upper == last.high
                    - (IF last.open > last.close THEN last.open ELSE last.close)
           lower == (IF last.open < last.close THEN last.open ELSE last.close)
                    - last.low
       IN IF 10 * body < 3 * range /\ LongerWick(upper, lower)
          THEN "ShootingStar"
          ELSE IF 10 * body < 3 * range /\ LongerWick(lower, upper)
          THEN "Hammer"
          ELSE IF last.close > prev.open /\ last.open < prev.close
                  /\ last.close > last.open
          THEN "BullishEngulfing"
          ELSE IF last.close < prev.open /\ last.open > prev.close
                  /\ last.close < last.open
          THEN "BearishEngulfing"
          ELSE ""

LIQ_MIN_BARS == 10     \* candles.length < 10
LIQ_WINDOW == 30       \* candles.slice(-30)

RECURSIVE SumVol(_)
SumVol(q) == IF q = <<>> THEN 0 ELSE Head(q).vol + SumVol(Tail(q))

\* `last.vol > avg * 1.8`, avg = sum / n
\* (variant: a volume of exactly 1.8 times the average is a spike)
Spike_geq(v, sum, n) == 10 * n * v >= 18 * sum
Spike(v, sum, n) == 10 * n * v > 18 * sum

\* avgVol is kept as the pair <<sum, count>>
detectLiquidityZone(candles) ==
  IF Len(candles) < LIQ_MIN_BARS THEN Null
  ELSE LET recent == IF Len(candles) > LIQ_WINDOW
                     THEN SubSeq(candles, Len(candles) - LIQ_WINDOW + 1,
                                 Len(candles))
                     ELSE candles
           sum == SumVol(recent)
           n == IF Len(recent) < 1 THEN 1 ELSE Len(recent)
           last == recent[Len(recent)]
       IN IF Spike(last.vol, sum, n)
          THEN [type |-> "LIQUIDITY_ZONE", vol |-> last.vol,
                avgVol |-> <<sum, n>>]
          ELSE Null

\* ---- the detectors of src/bot.js lines 115-131, which have no length guard
\* a property read on undefined: the call throws
Raised == [type |-> "TypeError"]

\* detectFVG of src/bot.js: the loop alone, no idx in the result
detectFVGBot(candles) ==
  LET gap == FVGScan(candles, FVGStart(Len(candles)))
  IN IF gap = Null THEN Null
     ELSE [type |-> gap.type, low |-> gap.low, high |-> gap.high]

\* detectLiquidity of src/bot.js: recent.at(-1) is undefined on no bars and
\* `last.vol` throws
detectLiquidity(candles) ==
  LET recent == IF Len(candles) > LIQ_WINDOW
                THEN SubSeq(candles, Len(candles) - LIQ_WINDOW + 1,
                            Len(candles))
                ELSE candles
  IN IF Len(recent) = 0 THEN Raised
     ELSE IF Spike(recent[Len(recent)].vol, SumVol(recent), Len(recent))
          THEN [type |-> "LIQUIDITY_ZONE", vol |-> recent[Len(recent)].vol]
          ELSE Null

\* ------------------------------------------------------------ fullAnalysis
\* the detector outputs as generateIdea reads them: by presence
SigOf(bos, fvg, ob, pattern, liq) ==
  Sig(IF bos = Null THEN "" ELSE bos.type, fvg # Null, ob.bullish # Null,
      ob.bearish # Null, pattern # "", liq # Null)

\* `if (!kl15 || !kl15.length) return { ok: false, reason: 'no data' }`
NoData == [ok |-> FALSE, reason |-> "no data"]

\* fullAnalysis(symbol) once `await fetchKlines(symbol, '15m', 300)` has
\* resolved to kl15 (the 1h and 4h bars it also fetches do not reach the
\* idea); of the result, symbol, price and idea are kept
fullAnalysis(symbol, kl15) ==
  IF Len(kl15) = 0 THEN NoData
  ELSE LET price == kl15[Len(kl15)].close
           g == SigOf(detectBOS(kl15, 20), detectFVG(kl15),
                      detectOrderBlock(kl15), detectCandlePattern(kl15),
                      detectLiquidityZone(kl15))
       IN [ok |-> TRUE, symbol |-> symbol, price |-> price,
           idea |-> generateIdea(symbol, price, g)]

\* the bars a fetch can resolve to during the scan, 20 bars each or none:
\*   RisingBars(10, FALSE)  BOS up, FVG, bullish block, pattern, spike: 10
\*   FallingBars            BOS down, FVG, bearish block, spike: SHORT, 9
\*   RisingBars(1, TRUE)    BOS up, FVG, both blocks, pattern, no spike:
\*                          9, not ok
\*   FlatBars               nothing: 0, not ok
\* all close at 100 (units of 1e-6)
Flat(level, v) == Bar(0, level, level, level, level, v)
Candle(o, c, v) ==
  Bar(0, o, IF o > c THEN o ELSE c, IF o < c THEN o ELSE c, c, v)
Rep(n, b) == [j \in 1..n |-> b]
RisingBars(lastVol, withBear) ==
  Rep(14, Flat(10, 1))
  \o <<IF withBear THEN Candle(12, 10, 1) ELSE Flat(10, 1),
       Candle(10, 20, 1), Flat(20, 1), Flat(20, 1), Candle(50, 60, 1),
       Candle(55, 100, lastVol)>>
FallingBars ==
  Rep(15, Flat(300, 1))
  \o <<Candle(300, 200, 1), Flat(200, 1), Flat(200, 1), Flat(200, 1),
       Candle(200, 100, 10)>>
FlatBars == Rep(20, Flat(100, 1))
ScanBars ==
  {<<>>, Timed(RisingBars(10, FALSE)), Timed(FallingBars),
   Timed(RisingBars(1, TRUE)), Timed(FlatBars)}

\* fullAnalysis over the symbols and bars of the scan, as a table
Analysis ==
  [s \in CoinSet \cup WatchSymbols |->
     [kl15 \in ScanBars |-> fullAnalysis(s, kl15)]]

\* ---------------------------------------------------------------- storage
EmptyMap == [x \in {} |-> x]
\* Object.assign({}, newIdea, { _time: Date.now() })
Stamp(idea, t) == [_time |-> t] @@ idea

Put(map, k, v) == [x \in DOMAIN map \cup {k} |-> IF x = k THEN v ELSE map[x]]

\* (variant: the cut keeps the tail of the array)
pushHistoryRecord_keepTail(hist, rec) ==
  LET arr == <<rec>> \o hist
  IN IF Len(arr) > HISTORY_MAX
     THEN SubSeq(arr, Len(arr) - HISTORY_MAX + 1, Len(arr)) ELSE arr
pushHistoryRecord(hist, rec) ==
  LET arr == <<rec>> \o hist
  IN IF Len(arr) > HISTORY_MAX THEN SubSeq(arr, 1, HISTORY_MAX) ELSE arr

\* a history entry, by the fields that tell entries apart here (the analysis,
\* the idea and _time it also carries are not kept)
HistRec(s, to) == [auto |-> TRUE, symbol |-> s, sentTo |-> to]

\* --------------------------------------------------------- autoScanAll
IdleCyc == [pc |-> "idle", i |-> 0, lastSignals |-> EmptyMap, msg |-> <<>>,
            wq |-> <<>>, analysed |-> {}, watchPass |-> FALSE, threw |-> FALSE]

NoEv(op) == [op |-> op]
NoCall == [op |-> "none"]

\* a returned invocation keeps nothing; what it did goes to ev
Settle(c) == IF c.pc = "done" THEN [IdleCyc EXCEPT !.pc = "done"] ELSE c
EndOf(c) == [finished |-> c.pc = "done", analysed |-> c.analysed,
             watchPass |-> c.watchPass, threw |-> c.threw]

\* the (user, symbol) pairs the watchlist pass iterates, in its order:
\*   for (const userId of perms.users) for (const s of watch[userId] || [])
RECURSIVE WatchQueue(_, _)
WatchQueue(users, watch) ==
  IF users = <<>> THEN <<>>
  ELSE LET u == Head(users)
           list == IF u \in DOMAIN watch THEN watch[u] ELSE <<>>
       IN [k \in 1..Len(list) |-> <<u, list[k]>>] \o WatchQueue(Tail(users), watch)

\* the invocation returns (normally, or through the outer catch)
Finish(c, threw) ==
  [c EXCEPT !.pc = "done", !.msg = <<>>, !.threw = threw]

\* next element of the watchlist pass, from position k of the queue
WatchFrom(c, k) ==
  IF k <= Len(c.wq) THEN [c EXCEPT !.pc = "wfetch", !.i = k, !.msg = <<>>]
  ELSE Finish(c, FALSE)

\* the main loop moves on from coin i: the next coin's fullAnalysis is
\* awaited, or, after the last coin, the watchlist pass reads its files
Advance(c) ==
  IF c.i < Len(AUTO_COINS)
  THEN [c EXCEPT !.pc = "fetch", !.i = c.i + 1, !.msg = <<>>]
  ELSE WatchFrom([c EXCEPT !.wq = WatchQueue(permsUsers, watchFile),
                           !.watchPass = TRUE], 1)

\* `if (!r.ok) continue;`
\* (variant: the loop is left instead of continued)
OnNoData_return(c) == Finish(c, FALSE)
OnNoData(c) == Advance(c)

\* prev._time = Date.now()
\* (variant: the stamp is not moved)
Refresh_keep(prev, t) == prev
Refresh(prev, t) == [prev EXCEPT !._time = t]

\* the continuity policy: what the cycle does with newIdea against prev
\* (variant: exactly 5 minutes counts as old enough)
ResendNotOk_atFive(hasPrev, prev, newIdea, t) ==
  hasPrev /\ prev.score > newIdea.score /\ t - prev._time >= RESEND_NOT_OK_MIN
\* (variant: a record of equal score counts as stronger)
ResendNotOk_geq(hasPrev, prev, newIdea, t) ==
  hasPrev /\ prev.score >= newIdea.score /\ t - prev._time > RESEND_NOT_OK_MIN
ResendNotOk(hasPrev, prev, newIdea, t) ==
  hasPrev /\ prev.score > newIdea.score /\ t - prev._time > RESEND_NOT_OK_MIN

\* (variant: every ok idea is announced and stored)
AnnounceNew_always(hasPrev, prev, newIdea) == TRUE
\* (variant: a tie keeps the record)
AnnounceNew_strict(hasPrev, prev, newIdea) ==
  ~hasPrev \/ newIdea.score > prev.score
AnnounceNew(hasPrev, prev, newIdea) ==
  ~hasPrev \/ newIdea.score >= prev.score

\* (variant: exactly 10 minutes counts as old enough)
ResendWeaker_geq(hasPrev, prev, t) ==
  hasPrev /\ t - prev._time >= RESEND_WEAKER_MIN
ResendWeaker(hasPrev, prev, t) ==
  hasPrev /\ t - prev._time > RESEND_WEAKER_MIN

\* (variant: the idea is not tested for ok before the comparison)
Decide_noOkTest(hasPrev, prev, newIdea, t) ==
  IF AnnounceNew(hasPrev, prev, newIdea) THEN "new"
  ELSE IF ResendWeaker(hasPrev, prev, t) THEN "resend10" ELSE "none"
Decide(hasPrev, prev, newIdea, t) ==
  IF ~newIdea.ok
  THEN IF ResendNotOk(hasPrev, prev, newIdea, t) THEN "resend5" ELSE "none"
  ELSE IF AnnounceNew(hasPrev, prev, newIdea) THEN "new"
       ELSE IF ResendWeaker(hasPrev, prev, t) THEN "resend10" ELSE "none"

\* setTimeout(() => { autoScanAll(); setInterval(autoScanAll, ...) })
\* an invocation starts: it reads the last-signal file and awaits the first
\* coin's analysis
TimerFire(k) ==
  /\ now = nextFire
  /\ cyc[k].pc = "idle"
  /\ \A j \in Slots : j < k => cyc[j].pc # "idle"     \* k-th invocation
  /\ nextFire' = now + AUTO_INTERVAL_MIN
  /\ LET c0 == [IdleCyc EXCEPT !.lastSignals = lastSignalsFile]
         nc == IF Len(AUTO_COINS) > 0 THEN [c0 EXCEPT !.pc = "fetch", !.i = 1]
               ELSE Advance(c0)
     IN /\ cyc' = [cyc EXCEPT ![k] = Settle(nc)]
        /\ ev' = [op |-> "start", c |-> k, end |-> EndOf(nc)]
  /\ UNCHANGED <<call, rotateIndex, catchSend, now, lastSignalsFile, historyFile, watchFile, permsUsers>>

Tick ==
  /\ now < MaxTime
  /\ now < nextFire
  /\ now' = now + 1
  /\ ev' = NoEv("other")
  /\ UNCHANGED <<call, rotateIndex, catchSend, nextFire, lastSignalsFile, historyFile, watchFile,
                 permsUsers, cyc>>

\* `if (!r.ok) continue;`, then the continuity policy on r.idea
\* (variant: without data a stale record is re-announced)
ScanAct_resend(r, hasPrev, prev, t) ==
  IF ~r.ok
  THEN IF hasPrev /\ t - prev._time > RESEND_NOT_OK_MIN THEN "resend5"
       ELSE "nodata"
  ELSE Decide(hasPrev, prev, r.idea, t)
ScanAct(r, hasPrev, prev, t) ==
  IF ~r.ok THEN "nodata" ELSE Decide(hasPrev, prev, r.idea, t)

\* `await fullAnalysis(s)` of the main loop resolves, the fetch having
\* returned kl15
FetchDone(k, kl15) ==
  LET c == cyc[k]
      s == AUTO_COINS[c.i]
      r == Analysis[s][kl15]
      hasPrev == s \in DOMAIN c.lastSignals
      prev == IF hasPrev THEN c.lastSignals[s] ELSE NoData
      act == ScanAct(r, hasPrev, prev, now)
      c1 == [c EXCEPT !.analysed = IF r.ok THEN @ \cup {s} ELSE @]
      nc == IF act = "nodata" THEN OnNoData(c1)
            ELSE IF act = "none" THEN Advance(c1)
            ELSE [c1 EXCEPT !.pc = "send",
                            !.msg = [kind |-> act, to |-> ADMIN_ID, symbol |-> s,
                                     idea |-> IF act = "new" THEN r.idea ELSE prev]]
  IN /\ c.pc = "fetch"
     /\ cyc' = [cyc EXCEPT ![k] = Settle(nc)]
     /\ ev' = [op |-> "decide", c |-> k, symbol |-> s,
               noBars |-> Len(kl15) = 0, r |-> r, act |-> act,
               hasPrev |-> hasPrev, prev |-> prev, at |-> now,
               fileBefore |-> lastSignalsFile, histBefore |-> historyFile,
               end |-> EndOf(nc)]
     /\ UNCHANGED <<call, rotateIndex, catchSend, now, nextFire, lastSignalsFile, historyFile,
                    watchFile, permsUsers>>

\* `await bot.sendMessage(ADMIN_ID, ...)` of the main loop resolves
\* (delivered) or rejects
SendDone(k, delivered) ==
  LET c == cyc[k]
      m == c.msg
      s == m.symbol
      \* what follows the send in the code
      stored == IF m.kind = "new" THEN Stamp(m.idea, now)
                ELSE Refresh(c.lastSignals[s], now)
      ls1 == Put(c.lastSignals, s, stored)
      writes == IF m.kind = "new" THEN delivered \/ catchSend ELSE delivered
      nc == IF delivered \/ catchSend
            THEN Advance(IF writes THEN [c EXCEPT !.lastSignals = ls1] ELSE c)
            ELSE Finish(c, TRUE)
  IN /\ c.pc = "send"
     /\ IF writes
        THEN /\ lastSignalsFile' = ls1
             /\ historyFile' = IF m.kind = "new"
                               THEN pushHistoryRecord(historyFile,
                                      HistRec(s, ""))
                               ELSE historyFile
        ELSE UNCHANGED <<lastSignalsFile, historyFile>>
     /\ cyc' = [cyc EXCEPT ![k] = Settle(nc)]
     /\ ev' = [op |-> "send", c |-> k, symbol |-> s, kind |-> m.kind,
               idea |-> m.idea, delivered |-> delivered, at |-> now,
               fileBefore |-> lastSignalsFile, histBefore |-> historyFile,
               end |-> EndOf(nc)]
     /\ UNCHANGED <<call, rotateIndex, catchSend, now, nextFire, watchFile, permsUsers>>

\* `if (r.idea && r.idea.ok)`: the watchlist pass alerts on every ok idea;
\* the last-signal record ls of the symbol plays no part
\* (variant: an idea weaker than the record is held back)
WatchAlert_continuity(r, hasPrev, prev) ==
  r.ok /\ r.idea.ok /\ (~hasPrev \/ r.idea.score >= prev.score)
WatchAlert(r, hasPrev, prev) == r.ok /\ r.idea.ok

\* `await fullAnalysis(s)` of the watchlist pass resolves, the fetch having
\* returned kl15
WatchFetchDone(k, kl15) ==
  LET c == cyc[k]
      u == c.wq[c.i][1]
      s == c.wq[c.i][2]
      r == Analysis[s][kl15]
      hasPrev == s \in DOMAIN lastSignalsFile
      prev == IF hasPrev THEN lastSignalsFile[s] ELSE NoData
      nc == IF WatchAlert(r, hasPrev, prev)
            THEN [c EXCEPT !.pc = "wsend",
                           !.msg = [kind |-> "watch", to |-> u, symbol |-> s,
                                    idea |-> r.idea]]
            ELSE WatchFrom(c, c.i + 1)
  IN /\ c.pc = "wfetch"
     /\ cyc' = [cyc EXCEPT ![k] = Settle(nc)]
     /\ ev' = [op |-> "wdecide", c |-> k, symbol |-> s, to |-> u, r |-> r,
               end |-> EndOf(nc)]
     /\ UNCHANGED <<call, rotateIndex, catchSend, now, nextFire, lastSignalsFile, historyFile,
                    watchFile, permsUsers>>

\* `await bot.sendMessage(String(userId), ...)` of the watchlist pass
WatchSendDone(k, delivered) ==
  LET c == cyc[k]
      m == c.msg
      nc == IF delivered \/ catchSend THEN WatchFrom(c, c.i + 1)
            ELSE Finish(c, TRUE)
  IN /\ c.pc = "wsend"
     /\ historyFile' = IF delivered
                       THEN pushHistoryRecord(historyFile,
                              HistRec(m.symbol, m.to))
                       ELSE historyFile
     /\ cyc' = [cyc EXCEPT ![k] = Settle(nc)]
     /\ ev' = [op |-> "wsend", c |-> k, symbol |-> m.symbol, to |-> m.to,
               delivered |-> delivered, histBefore |-> historyFile,
               left |-> Len(c.wq) - c.i, end |-> EndOf(nc)]
     /\ UNCHANGED <<call, rotateIndex, catchSend, now, nextFire, lastSignalsFile, watchFile, permsUsers>>

\* ------------------------------------------------------ command handlers
InSeq(x, q) == \E j \in 1..Len(q) : q[j] = x

\* `if (from !== String(ADMIN_ID)) return ...`
\* (variant: any sender passes)
IsAdmin_anyone(from) == TRUE
IsAdmin(from) == from = ADMIN_ID

\* perms.users after /grant target, after /revoke target
GrantUsers(users, from, target) ==
  IF IsAdmin(from) /\ ~InSeq(target, users) THEN Append(users, target)
  ELSE users
RevokeUsers(users, from, target) ==
  IF IsAdmin(from) THEN SelectSeq(users, LAMBDA x : x # target) ELSE users

\* /grant CHATID
Grant(from, target) ==
  /\ permsUsers' = GrantUsers(permsUsers, from, target)
  /\ ev' = IF permsUsers' # permsUsers THEN NoEv("other") ELSE ev
  /\ UNCHANGED <<call, rotateIndex, catchSend, now, nextFire, lastSignalsFile, historyFile,
                 watchFile, cyc>>

\* `if (!watch[chatId].includes(s)) watch[chatId].push(s)`
\* (variant: the symbol is pushed without the test)
WatchAddList_push(list, s) == Append(list, s)
WatchAddList(list, s) == IF InSeq(s, list) THEN list ELSE Append(list, s)

\* /watch add SYMBOL
WatchAdd(chat, s) ==
  LET list == IF chat \in DOMAIN watchFile THEN watchFile[chat] ELSE <<>>
  IN /\ watchFile' = IF InSeq(chat, permsUsers) /\ WatchAddList(list, s) # list
                     THEN Put(watchFile, chat, WatchAddList(list, s))
                     ELSE watchFile
     /\ ev' = IF watchFile' # watchFile THEN NoEv("other") ELSE ev
     /\ UNCHANGED <<call, rotateIndex, catchSend, now, nextFire, lastSignalsFile, historyFile,
                    permsUsers, cyc>>

\* /revoke CHATID: the target leaves perms.users; its watchlist stays
Revoke(from, target) ==
  /\ permsUsers' = RevokeUsers(permsUsers, from, target)
  /\ ev' = IF permsUsers' # permsUsers THEN NoEv("other") ELSE ev
  /\ UNCHANGED <<call, rotateIndex, catchSend, now, nextFire, lastSignalsFile, historyFile,
                 watchFile, cyc>>

\* /scan SYMBOL (src/unnamed/part_001 lines 315-329): the permission check,
\* the analysis, and for an ok idea the reply and the manual history record
ManualScanRec(chat, s) == [type |-> "manual_scan", symbol |-> s, user |-> chat]
ManualCount(hist) ==
  Cardinality({j \in DOMAIN hist : "type" \in DOMAIN hist[j]})

\* what /scan leaves in the last-signal file: the handler never writes it
\* (variant: an ok idea of a manual scan is stored as the symbol's record)
ScanStore_record(file, s, r, t) ==
  IF r.ok /\ r.idea.ok THEN Put(file, s, Stamp(r.idea, t)) ELSE file
ScanStore(file, s, r, t) == file

ManualScan(chat, s, kl15) ==
  LET allowed == InSeq(chat, permsUsers)
      r == Analysis[s][kl15]
  IN /\ ManualCount(historyFile) < MaxManual
     /\ historyFile' = IF allowed /\ r.ok /\ r.idea.ok
                       THEN pushHistoryRecord(historyFile, ManualScanRec(chat, s))
                       ELSE historyFile
     /\ lastSignalsFile' = IF allowed
                           THEN ScanStore(lastSignalsFile, s, r, now)
                           ELSE lastSignalsFile
     /\ ev' = [op |-> "manual", chat |-> chat, symbol |-> s,
               allowed |-> allowed, r |-> r,
               fileBefore |-> lastSignalsFile, histBefore |-> historyFile,
               copiesBefore |-> [k \in Slots |-> cyc[k].lastSignals]]
     /\ UNCHANGED <<call, rotateIndex, catchSend, now, nextFire, watchFile, permsUsers, cyc>>

\* ---- generateIdea of the rotation variant (src/bot.js lines 3227-3243): the
\* score floor is SCORE_THRESHOLD, levels are rounded to 8 decimals
\* +(x).toFixed(8) of price * pct / 100, prices in units of 1e-8
Round8(price, pct) == (price * pct + 50) \div 100

\* const ok = dir && fvg && (ob && (ob.bullish || ob.bearish)) && liq
\*            && score >= SCORE_THRESHOLD
\* (variant: the liquidity zone is not required)
ConfluenceAt_noLiq(dir, g, score, threshold) ==
  dir # "" /\ g.fvg /\ (g.ob.bullish \/ g.ob.bearish) /\ score >= threshold
ConfluenceAt(dir, g, score, threshold) ==
  dir # "" /\ g.fvg /\ (g.ob.bullish \/ g.ob.bearish) /\ g.liq
  /\ score >= threshold

generateIdeaBot(symbol, price, g, threshold) ==
  LET dir == IF g.bos = "BOS_UP" THEN "LONG"
             ELSE IF g.bos = "BOS_DOWN" THEN "SHORT" ELSE ""
      score == scoreIdea(g)
      ok == ConfluenceAt(dir, g, score, threshold)
      sl == IF dir = "LONG" THEN Round8(price, 99) ELSE Round8(price, 101)
      tp == IF dir = "LONG" THEN Round8(price, 102) ELSE Round8(price, 98)
  IN IF ~ok
     THEN [ok |-> FALSE, reason |-> "Not enough confluence", score |-> score]
     ELSE [ok |-> TRUE, symbol |-> symbol, dir |-> dir, entry |-> price,
           sl |-> sl, tp |-> tp, rr |-> RiskReward(price, sl, tp),
           note |-> Note(g), score |-> score]

\* ---- fullAnalysis of the rotation variant (src/bot.js lines 3154-3263).
\* detectBOS, detectOrderBlock and detectCandlePattern read as in part_001,
\* but for the fallback of a zero range (1e-12 instead of 1), under which a
\* zero body is not strong and wicks of length zero are not longer either way
SCORE_THRESHOLD == 2   \* Number(process.env.SCORE_THRESHOLD || 2)
LIQ_MIN_BARS_ROT == 15 \* candles.length < 15

\* for (let i = candles.length - 3; i >= 2; i--): a = candles[i],
\* b = candles[i - 2], counted from 0
RECURSIVE FVGScanRot(_, _)
FVGScanRot(candles, i) ==
  IF i < 2 THEN Null
  ELSE LET a == candles[i + 1]
           b == candles[i - 1]
       IN IF a.low > b.high
          THEN [type |-> "FVG_UP", low |-> b.high, high |-> a.low]
          ELSE IF a.high < b.low
               THEN [type |-> "FVG_DOWN", low |-> a.high, high |-> b.low]
               ELSE FVGScanRot(candles, i - 1)

detectFVGRot(candles) ==
  IF Len(candles) < 5 THEN Null ELSE FVGScanRot(candles, Len(candles) - 3)

detectLiquidityZoneRot(candles) ==
  IF Len(candles) < LIQ_MIN_BARS_ROT THEN Null
  ELSE LET recent == IF Len(candles) > LIQ_WINDOW
                     THEN SubSeq(candles, Len(candles) - LIQ_WINDOW + 1,
                                 Len(candles))
                     ELSE candles
           sum == SumVol(recent)
           n == IF Len(recent) < 1 THEN 1 ELSE Len(recent)
           last == recent[Len(recent)]
       IN IF Spike(last.vol, sum, n)
          THEN [type |-> "LIQUIDITY_ZONE", vol |-> last.vol,
                avgVol |-> <<sum, n>>]
          ELSE Null

fullAnalysisRot(symbol, kl15) ==
  IF Len(kl15) = 0 THEN NoData
  ELSE LET price == kl15[Len(kl15)].close
           g == SigOf(detectBOS(kl15, 20), detectFVGRot(kl15),
                      detectOrderBlock(kl15), detectCandlePattern(kl15),
                      detectLiquidityZoneRot(kl15))
       IN [ok |-> TRUE, symbol |-> symbol, price |-> price,
           idea |-> generateIdeaBot(symbol, price, g, SCORE_THRESHOLD)]

AnalysisRot ==
  [s \in CoinSet |-> [kl15 \in ScanBars |-> fullAnalysisRot(s, kl15)]]

\* ---- the rotating scheduler (src/bot.js lines 3265-3354)
HISTORY_MAX_BOT == 5000

\* arr.unshift(rec); if (arr.length > 5000) arr.pop();
pushHistory(arr, rec) ==
  LET a == <<rec>> \o arr
  IN IF Len(a) > HISTORY_MAX_BOT THEN SubSeq(a, 1, Len(a) - 1) ELSE a

ACTIVE_FROM == 630     \* hhmmToNum('0630')
ACTIVE_TO == 2300      \* hhmmToNum('2300')
HHMMs == {629, 630, 2300, 2301}     \* nowHHMM() at an invocation

isWithinActiveHours(from, to, hhmm) ==
  IF from <= to THEN hhmm >= from /\ hhmm <= to
  ELSE hhmm >= from \/ hhmm <= to

\* nextCoin(): the coin returned, and the index it leaves
\* (variant: the index is left where it was)
nextIndex_stay(idx) == idx
nextIndex(idx) == (idx + 1) % Len(AUTO_COINS)
nextCoin(idx) == AUTO_COINS[(idx % Len(AUTO_COINS)) + 1]

\* Array.from(new Set([ADMIN_ID, ...perms.users]))
RECURSIVE Dedup(_, _)
Dedup(q, seen) ==
  IF q = <<>> THEN <<>>
  ELSE IF Head(q) \in seen THEN Dedup(Tail(q), seen)
       ELSE <<Head(q)>> \o Dedup(Tail(q), seen \cup {Head(q)})
Recipients(users) == Dedup(<<ADMIN_ID>> \o users, {})

AutoRec(s, recipients) == [auto |-> TRUE, symbol |-> s, sentTo |-> recipients]

\* the interval timer calls autoCycle at time of day hhmm: outside the active
\* hours it returns at once; inside, nextCoin() is taken and fullAnalysis of
\* that coin awaited.  call.log keeps, per invocation, whether it was inside
\* the active hours and the coin it took
AutoCycleStart(k, hhmm) ==
  LET inHours == isWithinActiveHours(ACTIVE_FROM, ACTIVE_TO, hhmm)
      coin == nextCoin(rotateIndex)
  IN /\ Len(call.log) < MaxCycles
     /\ cyc[k].pc \in {"idle", "done"}
     /\ \A j \in Slots : j < k => cyc[j].pc \notin {"idle", "done"}
     /\ rotateIndex' = IF inHours THEN nextIndex(rotateIndex) ELSE rotateIndex
     /\ cyc' = IF inHours
               THEN [cyc EXCEPT ![k] = [IdleCyc EXCEPT !.pc = "afetch",
                                                       !.msg = [coin |-> coin]]]
               ELSE cyc
     /\ call' = [call EXCEPT !.log =
                   Append(@, [inHours |-> inHours,
                              coin |-> IF inHours THEN coin ELSE ""])]
     /\ ev' = [op |-> "autoCycle", c |-> k, hhmm |-> hhmm, inHours |-> inHours,
               indexBefore |-> rotateIndex]
     /\ UNCHANGED <<catchSend, now, nextFire, lastSignalsFile, historyFile,
                    watchFile, permsUsers>>

\* `await fullAnalysis(coin)` resolves: without data or without an ok idea
\* autoCycle returns; else last_signals.json is read and an idea at least as
\* strong as the record goes to every recipient
AutoCycleAnalysed(k, kl15) ==
  LET c == cyc[k]
      coin == c.msg.coin
      r == AnalysisRot[coin][kl15]
      hasPrev == coin \in DOMAIN lastSignalsFile
      sends == /\ r.ok /\ r.idea.ok
               /\ (~hasPrev \/ r.idea.score >= lastSignalsFile[coin].score)
      nc == IF sends
            THEN [c EXCEPT !.pc = "asend", !.i = 1,
                           !.lastSignals = lastSignalsFile,
                           !.wq = Recipients(permsUsers),
                           !.msg = [coin |-> coin, idea |-> r.idea]]
            ELSE Finish(c, FALSE)
  IN /\ c.pc = "afetch"
     /\ cyc' = [cyc EXCEPT ![k] = Settle(nc)]
     /\ ev' = [op |-> "aanalysed", c |-> k, coin |-> coin, r |-> r,
               sends |-> sends]
     /\ UNCHANGED <<call, rotateIndex, catchSend, now, nextFire,
                    lastSignalsFile, historyFile, watchFile, permsUsers>>

\* `try { await bot.sendMessage(String(uid), message) } catch (e) {...}`:
\* delivered or not, the loop goes on; after the last recipient the record
\* is written, and the history entry pushed (the daily log is not kept here)
AutoCycleSent(k, delivered) ==
  LET c == cyc[k]
      coin == c.msg.coin
      last == c.i = Len(c.wq)
      ls1 == Put(c.lastSignals, coin, Stamp(c.msg.idea, now))
      nc == IF last THEN Finish(c, FALSE) ELSE [c EXCEPT !.i = c.i + 1]
  IN /\ c.pc = "asend"
     /\ lastSignalsFile' = IF last THEN ls1 ELSE lastSignalsFile
     /\ historyFile' = IF last
                       THEN pushHistory(historyFile, AutoRec(coin, c.wq))
                       ELSE historyFile
     /\ cyc' = [cyc EXCEPT ![k] = Settle(nc)]
     /\ ev' = [op |-> "asent", c |-> k, coin |-> coin, to |-> c.wq[c.i],
               delivered |-> delivered, left |-> Len(c.wq) - c.i]
     /\ UNCHANGED <<call, rotateIndex, catchSend, now, nextFire, watchFile,
                    permsUsers>>

\* ---- the handlers of the rotation variant (src/bot.js lines 3366-3516)
BotChats == Chats \cup {"u2"}

ManualRec(chat, s) == [type |-> "manual", user |-> chat, symbol |-> s]

\* bot.on('message'): a chat that is neither in perms.users nor the admin is
\* pushed onto perms.users
AutoCollect(chat) ==
  /\ permsUsers' = IF ~InSeq(chat, permsUsers) /\ chat # ADMIN_ID
                   THEN Append(permsUsers, chat) ELSE permsUsers
  /\ ev' = [op |-> "message", chat |-> chat]
  /\ UNCHANGED <<call, rotateIndex, catchSend, now, nextFire, lastSignalsFile, historyFile,
                 watchFile, cyc>>

\* `if (!perms.users.includes(chatId) && chatId !== ADMIN_ID) return ...`
\* (variant: only the admin may scan)
ScanAllowed_admin(chat, users) == chat = ADMIN_ID
ScanAllowed(chat, users) == InSeq(chat, users) \/ chat = ADMIN_ID

\* /scan SYMBOL: the permission check, the analysis, and for an ok idea the
\* manual history record
Scan(chat, s, kl15) ==
  LET allowed == ScanAllowed(chat, permsUsers)
      r == Analysis[s][kl15]
  IN /\ Len(historyFile) < MaxManual
     /\ historyFile' = IF allowed /\ r.ok /\ r.idea.ok
                       THEN pushHistory(historyFile, ManualRec(chat, s))
                       ELSE historyFile
     /\ ev' = [op |-> "scan", chat |-> chat, allowed |-> allowed, r |-> r,
               usersBefore |-> permsUsers, histBefore |-> historyFile]
     /\ UNCHANGED <<call, rotateIndex, catchSend, now, nextFire, lastSignalsFile, watchFile,
                    permsUsers, cyc>>

\* /grant and /revoke as commands that are seen: ev keeps the sender, the
\* target and perms.users as they were
GrantCmd(from, target) ==
  /\ permsUsers' = GrantUsers(permsUsers, from, target)
  /\ ev' = [op |-> "grant", from |-> from, target |-> target,
            usersBefore |-> permsUsers]
  /\ UNCHANGED <<call, rotateIndex, catchSend, now, nextFire, lastSignalsFile,
                 historyFile, watchFile, cyc>>

RevokeCmd(from, target) ==
  /\ permsUsers' = RevokeUsers(permsUsers, from, target)
  /\ ev' = [op |-> "revoke", from |-> from, target |-> target,
            usersBefore |-> permsUsers]
  /\ UNCHANGED <<call, rotateIndex, catchSend, now, nextFire, lastSignalsFile,
                 historyFile, watchFile, cyc>>

\* /watch add and /watch rm as commands that are seen, with the symbol as
\* typed: args[1].toUpperCase()
TypedSymbols == {"ETHUSDT", "ethusdt", "BTCUSDT"}
toUpperCase(typed) == IF typed = "ethusdt" THEN "ETHUSDT" ELSE typed

WatchAddCmd(chat, typed) ==
  LET s == toUpperCase(typed)
      allowed == InSeq(chat, permsUsers)
      list == IF chat \in DOMAIN watchFile THEN watchFile[chat] ELSE <<>>
  IN /\ watchFile' = IF allowed /\ WatchAddList(list, s) # list
                     THEN Put(watchFile, chat, WatchAddList(list, s))
                     ELSE watchFile
     /\ ev' = [op |-> "watchadd", chat |-> chat, symbol |-> s,
               allowed |-> allowed, listBefore |-> list]
     /\ UNCHANGED <<call, rotateIndex, catchSend, now, nextFire,
                    lastSignalsFile, historyFile, permsUsers, cyc>>

\* watch[chatId] = (watch[chatId] || []).filter(x => x !== s); saveWatch(watch)
WatchRmCmd(chat, typed) ==
  LET s == toUpperCase(typed)
      allowed == InSeq(chat, permsUsers)
      list == IF chat \in DOMAIN watchFile THEN watchFile[chat] ELSE <<>>
  IN /\ watchFile' = IF allowed
                     THEN Put(watchFile, chat,
                              SelectSeq(list, LAMBDA x : x # s))
                     ELSE watchFile
     /\ ev' = [op |-> "watchrm", chat |-> chat, symbol |-> s,
               allowed |-> allowed, listBefore |-> list]
     /\ UNCHANGED <<call, rotateIndex, catchSend, now, nextFire,
                    lastSignalsFile, historyFile, permsUsers, cyc>>

\* ---------------------------------------------------------- specification
\* last_signals.json as an earlier run of the process may have left it: no
\* record, or one for the first coin: an idea generateIdea returned with
\* ok = TRUE, announced `age` minutes before this startup (time 0)
Persisted(s, p, g, age) ==
  [x \in {s} |-> Stamp(generateIdea(s, p, g), 0 - age)]
PersistedSignals ==
  {EmptyMap} \cup
  UNION {{ Persisted(AUTO_COINS[1], p,
                     Sig("BOS_UP", TRUE, TRUE, FALSE, TRUE, TRUE), 9),
           Persisted(AUTO_COINS[1], p,
                     Sig("BOS_DOWN", TRUE, FALSE, TRUE, FALSE, TRUE), 4) }
         : p \in Prices}

InitCommon ==
  /\ rotateIndex = 0
  /\ now = 0
  /\ nextFire = 0
  /\ lastSignalsFile \in PersistedSignals
  /\ historyFile = <<>>
  /\ watchFile = EmptyMap
  /\ permsUsers = <<>>
  /\ cyc = [k \in Slots |-> IdleCyc]
  /\ ev = NoEv("other")
  /\ call = NoCall

Init == catchSend = FALSE /\ InitCommon
InitCatch == catchSend = TRUE /\ InitCommon

Next ==
  \/ \E k \in Slots : TimerFire(k)
  \/ Tick
  \/ \E k \in Slots : \E kl15 \in ScanBars : FetchDone(k, kl15)
  \/ \E k \in Slots : \E d \in BOOLEAN : SendDone(k, d)
  \/ \E k \in Slots : \E kl15 \in ScanBars : WatchFetchDone(k, kl15)
  \/ \E k \in Slots : \E d \in BOOLEAN : WatchSendDone(k, d)
  \/ \E from \in Chats : \E target \in GrantTargets : Grant(from, target)
  \/ \E chat \in Chats : \E s \in WatchSymbols : WatchAdd(chat, s)

Spec == Init /\ [][Next]_vars
SpecCatch == InitCatch /\ [][Next]_vars

\* ------------------------------------------- the engine's functions alone
\* the bot at rest: no invocation running, no file but the one a function
\* under test works on
InitEngine ==
  /\ catchSend = FALSE
  /\ rotateIndex = 0
  /\ now = 0
  /\ nextFire = 0
  /\ lastSignalsFile = EmptyMap
  /\ watchFile = EmptyMap
  /\ permsUsers = <<>>
  /\ cyc = [k \in Slots |-> IdleCyc]
  /\ ev = NoEv("other")
EngineFrame ==
  UNCHANGED <<rotateIndex, catchSend, now, nextFire, lastSignalsFile, watchFile, permsUsers,
              cyc, ev>>

\* history.json as an earlier run may have left it: empty, or NearFull entries
\* short of the cap; entries are told apart by their _time
HistEntry(t) == [auto |-> TRUE, symbol |-> AUTO_COINS[1], sentTo |-> "",
                 _time |-> t]
PersistedHistory ==
  {<<>>, [j \in 1..(HISTORY_MAX - NearFull) |-> HistEntry(0 - j)]}

\* pushHistoryRecord(rec): rec._time = Date.now(), then the array is saved
PushHistory ==
  /\ call.n < MaxPushes
  /\ LET rec == HistEntry(call.n)
     IN /\ historyFile' = pushHistoryRecord(historyFile, rec)
        /\ call' = [op |-> "pushHistoryRecord", n |-> call.n + 1,
                    before |-> historyFile, rec |-> rec]
  /\ EngineFrame

InitHist ==
  /\ InitEngine
  /\ historyFile \in PersistedHistory
  /\ call = [op |-> "start", n |-> 0]
NextHist == PushHistory
SpecHist == InitHist /\ [][NextHist]_vars

\* every combination of detector outcomes, and prices from the smallest
\* the 6-decimal grid can hold up to MaxIdeaPrice, and one dollar
AllSignals ==
  {Sig(b, f, bu, be, p, l) : b \in {"", "BOS_UP", "BOS_DOWN"},
                             f \in BOOLEAN, bu \in BOOLEAN, be \in BOOLEAN,
                             p \in BOOLEAN, l \in BOOLEAN}
IdeaPrices == 1..MaxIdeaPrice \cup {1000000}

ScoreIdeaCall ==
  /\ call.op = "args"
  /\ call' = [op |-> "scoreIdea", price |-> call.price, g |-> call.g,
              out |-> scoreIdea(call.g)]
  /\ UNCHANGED historyFile
  /\ EngineFrame

GenerateIdeaCall ==
  /\ call.op = "args"
  /\ call' = [op |-> "generateIdea", price |-> call.price, g |-> call.g,
              out |-> generateIdea(AUTO_COINS[1], call.price, call.g)]
  /\ UNCHANGED historyFile
  /\ EngineFrame

InitIdea ==
  /\ InitEngine
  /\ historyFile = <<>>
  /\ call \in {[op |-> "args", price |-> p, g |-> g] :
                 p \in IdeaPrices, g \in AllSignals}
NextIdea == ScoreIdeaCall \/ GenerateIdeaCall
SpecIdea == InitIdea /\ [][NextIdea]_vars

\* ---- generateIdea under every score floor: the coded 6 and the values
\* SCORE_THRESHOLD can be configured to
Thresholds == 0..MaxThreshold

GenerateIdeaBotCall ==
  /\ call.op = "args"
  /\ call' = [op |-> "generateIdeaBot", price |-> call.price, g |-> call.g,
              threshold |-> call.threshold,
              out |-> generateIdeaBot(AUTO_COINS[1], call.price, call.g,
                                      call.threshold)]
  /\ UNCHANGED historyFile
  /\ EngineFrame

InitThreshold ==
  /\ InitEngine
  /\ historyFile = <<>>
  /\ call \in {[op |-> "args", price |-> p, g |-> g, threshold |-> th] :
                 p \in Prices, g \in AllSignals, th \in Thresholds}
NextThreshold == GenerateIdeaCall \/ GenerateIdeaBotCall
SpecThreshold == InitThreshold /\ [][NextThreshold]_vars

\* ---- detector inputs: every sequence of bars, up to a length, over the bar
\* shapes that matter to the detector; t is the position in the sequence
SeqsUpTo(S, n) == UNION {[1..k -> S] : k \in 0..n}
Args(fn, bars, lookback) ==
  [op |-> "args", fn |-> fn, candles |-> Timed(bars), lookback |-> lookback]

\* detectBOS reads high, low, close: low <= close <= high over BosLevels
BosLevels == {1, 2, 3}
BosBars ==
  {Bar(0, x[2], x[3], x[1], x[2], 1) :
     x \in {y \in BosLevels \X BosLevels \X BosLevels :
              y[1] <= y[2] /\ y[2] <= y[3]}}
BosInputs ==
  {Args("detectBOS", b, k) : b \in SeqsUpTo(BosBars, MaxBosBars),
                             k \in 2..MaxBosBars}

\* detectFVG reads high and low: three flat bars and one spanning them
FvgBars == {Bar(0, 1, 1, 1, 1, 1), Bar(0, 2, 2, 2, 2, 1), Bar(0, 3, 3, 3, 3, 1),
            Bar(0, 1, 3, 1, 3, 1)}
FvgInputs == {Args("detectFVG", b, 0) : b \in SeqsUpTo(FvgBars, MaxFvgBars)}

\* detectOrderBlock reads the body against the range: a full-body rising
\* bar, a full-body falling bar, and a body of exactly 0.6 of the range
ObBars == {Bar(0, 1, 3, 1, 3, 1), Bar(0, 3, 3, 1, 1, 1), Bar(0, 1, 6, 1, 4, 1)}
ObInputs ==
  {Args("detectOrderBlock", b, 0) : b \in SeqsUpTo(ObBars, MaxObBars)}

\* detectCandlePattern reads the newest bar whole and open/close of the one
\* before: every well-formed newest bar over 1..MaxPatPx
PatLast ==
  {Bar(0, x[1], x[2], x[3], x[4], 1) :
     x \in {y \in (1..MaxPatPx) \X (1..MaxPatPx) \X (1..MaxPatPx)
                  \X (1..MaxPatPx) :
              /\ y[3] <= y[1] /\ y[1] <= y[2]
              /\ y[3] <= y[4] /\ y[4] <= y[2]}}
PatPrev ==
  {Bar(0, x[1], IF x[1] > x[2] THEN x[1] ELSE x[2],
       IF x[1] < x[2] THEN x[1] ELSE x[2], x[2], 1) :
     x \in (1..MaxPatPx) \X (1..MaxPatPx)}
PatInputs ==
  {Args("detectCandlePattern", b, 0) :
     b \in {<<>>} \cup {<<x>> : x \in PatPrev}
           \cup {<<x, y>> : x \in PatPrev, y \in PatLast}}

\* detectLiquidityZone reads vol: n bars, the oldest, the newest and the
\* ones between them each with a volume of LiqVols
LiqVols == {1, 5, 9}
LiqBars(n, first, mid, newest) ==
  [j \in 1..n |-> Bar(0, 1, 1, 1, 1, IF j = n THEN newest
                                      ELSE IF j = 1 THEN first ELSE mid)]
LiqInputs ==
  {Args("detectLiquidityZone", LiqBars(n, f, m, x), 0) :
     n \in 0..MaxLiqBars, f \in LiqVols, m \in LiqVols, x \in LiqVols}

FvgBotInputs ==
  {Args("detectFVGBot", b, 0) : b \in SeqsUpTo(FvgBars, MaxFvgBars)}
LiqBotInputs ==
  {Args("detectLiquidity", LiqBars(n, f, m, x), 0) :
     n \in 0..MaxLiqBars, f \in LiqVols, m \in LiqVols, x \in LiqVols}

Returned(out) ==
  [op |-> call.fn, candles |-> call.candles, lookback |-> call.lookback,
   out |-> out]
DetectorFrame == UNCHANGED historyFile /\ EngineFrame

DetectBOSCall ==
  /\ call.op = "args" /\ call.fn = "detectBOS"
  /\ call' = Returned(detectBOS(call.candles, call.lookback))
  /\ DetectorFrame

DetectFVGCall ==
  /\ call.op = "args" /\ call.fn = "detectFVG"
  /\ call' = Returned(detectFVG(call.candles))
  /\ DetectorFrame

DetectOrderBlockCall ==
  /\ call.op = "args" /\ call.fn = "detectOrderBlock"
  /\ call' = Returned(detectOrderBlock(call.candles))
  /\ DetectorFrame

DetectCandlePatternCall ==
  /\ call.op = "args" /\ call.fn = "detectCandlePattern"
  /\ call' = Returned(detectCandlePattern(call.candles))
  /\ DetectorFrame

DetectLiquidityZoneCall ==
  /\ call.op = "args" /\ call.fn = "detectLiquidityZone"
  /\ call' = Returned(detectLiquidityZone(call.candles))
  /\ DetectorFrame

DetectFVGBotCall ==
  /\ call.op = "args" /\ call.fn = "detectFVGBot"
  /\ call' = Returned(detectFVGBot(call.candles))
  /\ DetectorFrame

DetectLiquidityCall ==
  /\ call.op = "args" /\ call.fn = "detectLiquidity"
  /\ call' = Returned(detectLiquidity(call.candles))
  /\ DetectorFrame

InitDetect ==
  /\ InitEngine
  /\ historyFile = <<>>
  /\ \/ call \in BosInputs
     \/ call \in FvgInputs
     \/ call \in ObInputs
     \/ call \in PatInputs
     \/ call \in LiqInputs
     \/ call \in FvgBotInputs
     \/ call \in LiqBotInputs
NextDetect ==
  \/ DetectBOSCall
  \/ DetectFVGCall
  \/ DetectOrderBlockCall
  \/ DetectCandlePatternCall
  \/ DetectLiquidityZoneCall
  \/ DetectFVGBotCall
  \/ DetectLiquidityCall
SpecDetect == InitDetect /\ [][NextDetect]_vars

\* the scan cycle with /revoke as well, started with no last-signal record
InitCmd == Init /\ lastSignalsFile = EmptyMap
NextCmd ==
  \/ Next
  \/ \E from \in Chats : \E target \in GrantTargets : Revoke(from, target)
SpecCmd == InitCmd /\ [][NextCmd]_vars

\* ---- cycles that do not overlap: the timer starts an invocation only when
\* the one before has returned
SerialFire(k) ==
  /\ \A j \in Slots : cyc[j].pc \in {"idle", "done"}
  /\ TimerFire(k)
NextSerial ==
  \/ \E k \in Slots : SerialFire(k)
  \/ Tick
  \/ \E k \in Slots : \E kl15 \in ScanBars : FetchDone(k, kl15)
  \/ \E k \in Slots : \E d \in BOOLEAN : SendDone(k, d)
  \/ \E k \in Slots : \E kl15 \in ScanBars : WatchFetchDone(k, kl15)
  \/ \E k \in Slots : \E d \in BOOLEAN : WatchSendDone(k, d)
  \/ \E from \in Chats : \E target \in GrantTargets : Grant(from, target)
  \/ \E chat \in Chats : \E s \in WatchSymbols : WatchAdd(chat, s)
SpecSerial == Init /\ [][NextSerial]_vars

\* ---- non-overlapping cycles of the main loop, with manual scans of the
\* first coin in between
NextManual ==
  \/ \E k \in Slots : SerialFire(k)
  \/ Tick
  \/ \E k \in Slots : \E kl15 \in ScanBars : FetchDone(k, kl15)
  \/ \E k \in Slots : \E d \in BOOLEAN : SendDone(k, d)
  \/ \E from \in Chats : \E target \in GrantTargets : Grant(from, target)
  \/ \E chat \in Chats : \E kl15 \in ScanBars :
        ManualScan(chat, AUTO_COINS[1], kl15)
SpecManual == Init /\ [][NextManual]_vars

\* ---- the rotating scheduler of src/bot.js: MaxCycles invocations of
\* autoCycle, at any times of day, which may overlap
InitRotate ==
  /\ catchSend = TRUE
  /\ rotateIndex = 0
  /\ now = 0
  /\ nextFire = 0
  /\ lastSignalsFile = EmptyMap
  /\ historyFile = <<>>
  /\ watchFile = EmptyMap
  /\ permsUsers = <<"u1">>
  /\ cyc = [k \in Slots |-> IdleCyc]
  /\ ev = NoEv("other")
  /\ call = [op |-> "autoCycle", log |-> <<>>]
NextRotate ==
  \/ \E k \in Slots : \E hhmm \in HHMMs : AutoCycleStart(k, hhmm)
  \/ \E k \in Slots : \E kl15 \in ScanBars : AutoCycleAnalysed(k, kl15)
  \/ \E k \in Slots : \E d \in BOOLEAN : AutoCycleSent(k, d)
SpecRotate == InitRotate /\ [][NextRotate]_vars

\* ---- /grant and /revoke alone, from any chat, for any target
InitPerm == Init /\ lastSignalsFile = EmptyMap
NextPerm ==
  \/ \E from \in BotChats : \E target \in BotChats : GrantCmd(from, target)
  \/ \E from \in BotChats : \E target \in BotChats : RevokeCmd(from, target)
SpecPerm == InitPerm /\ [][NextPerm]_vars

\* ---- /watch add and /watch rm from a permitted user and from the admin
\* (who is not in perms.users), around the cycle of startup
InitWatch ==
  /\ catchSend = FALSE
  /\ rotateIndex = 0
  /\ now = 0
  /\ nextFire = 0
  /\ lastSignalsFile = EmptyMap
  /\ historyFile = <<>>
  /\ watchFile = EmptyMap
  /\ permsUsers = <<"u1">>
  /\ cyc = [k \in Slots |-> IdleCyc]
  /\ ev = NoEv("other")
  /\ call = NoCall
NextWatch ==
  \/ \E chat \in Chats : \E typed \in TypedSymbols : WatchAddCmd(chat, typed)
  \/ \E chat \in Chats : \E typed \in TypedSymbols : WatchRmCmd(chat, typed)
  \/ \E k \in Slots : TimerFire(k)
  \/ \E k \in Slots : \E kl15 \in ScanBars : FetchDone(k, kl15)
  \/ \E k \in Slots : \E d \in BOOLEAN : SendDone(k, d)
  \/ \E k \in Slots : \E kl15 \in ScanBars : WatchFetchDone(k, kl15)
  \/ \E k \in Slots : \E d \in BOOLEAN : WatchSendDone(k, d)
SpecWatch == InitWatch /\ [][NextWatch]_vars

\* ---- a function of the engine called twice on the same bars, the clock and
\* the last-signal store moving in between
RepeatFns == {"detectBOS", "detectFVG", "detectOrderBlock",
              "detectCandlePattern", "detectLiquidityZone", "scoreIdea",
              "fullAnalysis"}

\* the score of the detections of kl15, as fullAnalysis passes them on
\* (variant: the scorer keeps the score of the record in the store)
ScoreOf_stored(kl15) ==
  LET s == AUTO_COINS[1]
      r == Analysis[s][kl15]
  IN IF s \in DOMAIN lastSignalsFile THEN lastSignalsFile[s].score
     ELSE IF r.ok THEN r.idea.score ELSE 0
ScoreOf(kl15) ==
  scoreIdea(SigOf(detectBOS(kl15, 20), detectFVG(kl15), detectOrderBlock(kl15),
                  detectCandlePattern(kl15), detectLiquidityZone(kl15)))

\* what the call fn(kl15) returns
Invoke(fn, kl15) ==
  CASE fn = "detectBOS" -> detectBOS(kl15, 20)
    [] fn = "detectFVG" -> detectFVG(kl15)
    [] fn = "detectOrderBlock" -> detectOrderBlock(kl15)
    [] fn = "detectCandlePattern" -> detectCandlePattern(kl15)
    [] fn = "detectLiquidityZone" -> detectLiquidityZone(kl15)
    [] fn = "scoreIdea" -> ScoreOf(kl15)
    [] fn = "fullAnalysis" -> Analysis[AUTO_COINS[1]][kl15]

FirstCall ==
  /\ call.stage = 0
  /\ call' = [call EXCEPT !.stage = 1] @@
             [out |-> Invoke(call.fn, call.candles), at |-> now,
              store |-> lastSignalsFile]
  /\ ev' = NoEv("other")
  /\ UNCHANGED <<rotateIndex, catchSend, now, nextFire, lastSignalsFile, historyFile,
                 watchFile, permsUsers, cyc>>

SecondCall ==
  /\ call.stage = 1
  /\ call' = [call EXCEPT !.stage = 2] @@
             [again |-> Invoke(call.fn, call.candles), at2 |-> now,
              store2 |-> lastSignalsFile]
  /\ ev' = NoEv("other")
  /\ UNCHANGED <<rotateIndex, catchSend, now, nextFire, lastSignalsFile, historyFile,
                 watchFile, permsUsers, cyc>>

\* lastSignals[s] = { ...idea, _time: Date.now() }; saveLastSignals(lastSignals)
StoreIdea(s, kl15) ==
  LET r == Analysis[s][kl15]
  IN /\ r.ok /\ r.idea.ok
     /\ lastSignalsFile' = Put(lastSignalsFile, s, Stamp(r.idea, now))
     /\ ev' = NoEv("other")
     /\ UNCHANGED <<call, rotateIndex, catchSend, now, nextFire, historyFile, watchFile,
                    permsUsers, cyc>>

InitRepeat ==
  /\ catchSend = FALSE
  /\ rotateIndex = 0
  /\ now = 0
  /\ nextFire = MaxTime
  /\ lastSignalsFile = EmptyMap
  /\ historyFile = <<>>
  /\ watchFile = EmptyMap
  /\ permsUsers = <<>>
  /\ cyc = [k \in Slots |-> IdleCyc]
  /\ ev = NoEv("other")
  /\ call \in [op : {"repeat"}, fn : RepeatFns, candles : ScanBars,
               stage : {0}]
NextRepeat ==
  \/ FirstCall
  \/ SecondCall
  \/ Tick
  \/ \E kl15 \in ScanBars : StoreIdea(AUTO_COINS[1], kl15)
SpecRepeat == InitRepeat /\ [][NextRepeat]_vars

\* ---- the chat handlers of the rotation variant alone
InitBot == Init /\ lastSignalsFile = EmptyMap
NextBot ==
  \/ \E from \in BotChats : \E target \in GrantTargets : Grant(from, target)
  \/ \E from \in BotChats : \E target \in GrantTargets : Revoke(from, target)
  \/ \E chat \in BotChats : AutoCollect(chat)
  \/ \E chat \in BotChats : \E s \in WatchSymbols : \E kl15 \in ScanBars :
        Scan(chat, s, kl15)
SpecBot == InitBot /\ [][NextBot]_vars

\* ---- one invocation of the cycle, the one of startup, over perms.json and
\* watchlist.json as earlier commands left them: two permitted users, each
\* watching one symbol
WatchUsers == <<"u1", "u2">>
InitBatch ==
  /\ catchSend = FALSE
  /\ rotateIndex = 0
  /\ now = 0
  /\ nextFire = 0
  /\ lastSignalsFile = EmptyMap
  /\ historyFile = <<>>
  /\ watchFile = [u \in {WatchUsers[j] : j \in DOMAIN WatchUsers}
                   |-> <<CHOOSE s \in WatchSymbols : TRUE>>]
  /\ permsUsers = WatchUsers
  /\ cyc = [k \in Slots |-> IdleCyc]
  /\ ev = NoEv("other")
  /\ call = NoCall
NextBatch ==
  \/ \E k \in Slots : TimerFire(k)
  \/ \E k \in Slots : \E kl15 \in ScanBars : FetchDone(k, kl15)
  \/ \E k \in Slots : \E d \in BOOLEAN : SendDone(k, d)
  \/ \E k \in Slots : \E kl15 \in ScanBars : WatchFetchDone(k, kl15)
  \/ \E k \in Slots : \E d \in BOOLEAN : WatchSendDone(k, d)
SpecBatch == InitBatch /\ [][NextBatch]_vars

\* every awaited promise settles: fetchKlines resolves (axios times out after
\* 15 s and the catch returns []), sendMessage resolves or rejects
Settles(k) ==
  /\ WF_vars(\E kl15 \in ScanBars : FetchDone(k, kl15))
  /\ WF_vars(\E d \in BOOLEAN : SendDone(k, d))
  /\ WF_vars(\E kl15 \in ScanBars : WatchFetchDone(k, kl15))
  /\ WF_vars(\E d \in BOOLEAN : WatchSendDone(k, d))
SpecBatchFair == SpecBatch /\ WF_vars(\E k \in Slots : TimerFire(k))
                           /\ \A k \in Slots : Settles(k)

\* ------------------------------------------------------------ properties
CoinIndex(s) == CHOOSE i \in 1..Len(AUTO_COINS) : AUTO_COINS[i] = s
Resends == {"resend5", "resend10"}
\* ev is a decision of the main loop on a coin whose analysis had data
Decided == ev.op = "decide" /\ ev.r.ok
\* minutes since the stamp of the record the invocation decided against
Elapsed == ev.at - ev.prev._time
\* the invocation of ev continues with the element after coin i
ContinuesAfter(i) ==
  IF i < Len(AUTO_COINS)
  THEN cyc[ev.c].pc = "fetch" /\ cyc[ev.c].i = i + 1
  ELSE ev.end.watchPass
Untouched == lastSignalsFile = ev.fileBefore /\ historyFile = ev.histBefore

\* C1: an ok idea with no record for its symbol, or with score >= the
\* record's score (a tie included), is announced to the admin as new; once
\* the announcement is delivered the symbol's record is that idea stamped
\* with the current time and the history log has exactly one more entry.
C1_AnnounceNew ==
  /\ (Decided /\ ev.r.idea.ok
        /\ (~ev.hasPrev \/ ev.r.idea.score >= ev.prev.score))
     => /\ ev.act = "new"
        /\ cyc[ev.c].pc = "send"
        /\ cyc[ev.c].msg = [kind |-> "new", to |-> ADMIN_ID,
                            symbol |-> ev.symbol, idea |-> ev.r.idea]
        /\ Untouched
  /\ (ev.op = "send" /\ ev.kind = "new" /\ ev.delivered)
     => /\ ev.symbol \in DOMAIN lastSignalsFile
        /\ lastSignalsFile[ev.symbol] = Stamp(ev.idea, now)
        /\ Len(historyFile) = Len(ev.histBefore) + 1
        /\ Tail(historyFile) = ev.histBefore
        /\ Head(historyFile).symbol = ev.symbol

\* a delivered announcement of a new idea that ties the score of the record
\* it replaces
C1_Witness ==
  /\ ev.op = "send" /\ ev.kind = "new" /\ ev.delivered
  /\ ev.symbol \in DOMAIN ev.fileBefore
  /\ ev.fileBefore[ev.symbol].score = ev.idea.score
  /\ lastSignalsFile[ev.symbol]._time = now
  /\ now > 0

\* C2: an ok idea scoring strictly below the record, decided no more than
\* 10 minutes after the record's stamp, sends nothing (neither a new
\* announcement nor a re-announcement) and leaves the last-signal file, the
\* record with its stamp, and the history log as they were.
C2_Suppressed ==
  (Decided /\ ev.r.idea.ok /\ ev.hasPrev
     /\ ev.r.idea.score < ev.prev.score /\ Elapsed <= 10)
  => /\ ev.act = "none"
     /\ cyc[ev.c].pc # "send"
     /\ cyc[ev.c].msg = <<>>
     /\ Untouched
     /\ cyc[ev.c].pc # "done" => cyc[ev.c].lastSignals[ev.symbol] = ev.prev

\* a weaker ok idea decided exactly 10 minutes after the record's stamp
C2_Witness ==
  /\ Decided /\ ev.r.idea.ok /\ ev.hasPrev
  /\ ev.r.idea.score < ev.prev.score /\ Elapsed = 10
  /\ ev.act = "none"

\* C3: for an idea that is not ok the previous record is re-announced exactly
\* when a record exists, its score is greater than the idea's and strictly
\* more than 5 minutes have passed since its stamp; the delivered
\* re-announcement sets the stamp to the current time; otherwise nothing is
\* sent for the symbol and nothing is written.
C3_NotOkResend ==
  /\ (Decided /\ ~ev.r.idea.ok)
     => IF ev.hasPrev /\ ev.prev.score > ev.r.idea.score /\ Elapsed > 5
        THEN /\ ev.act = "resend5"
             /\ cyc[ev.c].pc = "send"
             /\ cyc[ev.c].msg = [kind |-> "resend5", to |-> ADMIN_ID,
                                 symbol |-> ev.symbol, idea |-> ev.prev]
        ELSE /\ ev.act = "none"
             /\ cyc[ev.c].pc # "send"
             /\ cyc[ev.c].msg = <<>>
             /\ Untouched
  /\ (ev.op = "send" /\ ev.kind = "resend5")
     => IF ev.delivered
        THEN /\ ev.symbol \in DOMAIN lastSignalsFile
             /\ lastSignalsFile[ev.symbol] = [ev.idea EXCEPT !._time = now]
             /\ historyFile = ev.histBefore
        ELSE Untouched

\* the re-announcement a not-ok idea caused is delivered and moves the stamp
\* of a record that was 6 minutes old
C3_Witness ==
  /\ ev.op = "send" /\ ev.kind = "resend5" /\ ev.delivered
  /\ now - ev.idea._time = 6
  /\ lastSignalsFile[ev.symbol]._time = now

\* C4 as stated: against a record of score 10, whatever the weaker or not-ok
\* idea, the previous idea is re-announced exactly when more than 10 minutes
\* have passed since the record's stamp.
C4_Original ==
  (Decided /\ ev.hasPrev /\ ev.prev.score = 10
     /\ (~ev.r.idea.ok \/ ev.r.idea.score < 10))
  => (ev.act \in Resends <=> Elapsed > 10)

\* C4 amended: against a record of score 10 the previous idea is re-announced
\* exactly when the time since the record's stamp exceeds the threshold of
\* the new idea's branch (5 minutes if it is not ok, 10 minutes if it is ok
\* and weaker), and a delivered re-announcement moves the stamp to the
\* current time, so the next one needs the threshold to be crossed again.
C4_ResendPerCrossing ==
  /\ (Decided /\ ev.hasPrev /\ ev.prev.score = 10
        /\ (~ev.r.idea.ok \/ ev.r.idea.score < 10))
     => (ev.act \in Resends
           <=> Elapsed > (IF ev.r.idea.ok THEN 10 ELSE 5))
  /\ (ev.op = "send" /\ ev.kind \in Resends /\ ev.delivered)
     => /\ lastSignalsFile[ev.symbol]._time = now
        /\ lastSignalsFile[ev.symbol].score = ev.idea.score
        /\ cyc[ev.c].pc # "done"
             => cyc[ev.c].lastSignals[ev.symbol]._time = now

\* a not-ok idea re-announces a score-10 record between the two thresholds
C4_Witness ==
  /\ Decided /\ ~ev.r.idea.ok /\ ev.hasPrev /\ ev.prev.score = 10
  /\ Elapsed > 5 /\ Elapsed <= 10
  /\ ev.act = "resend5"

\* C5 as stated: an ok idea with the direction and score of the record an
\* earlier cycle of this run stored sends no announcement.
C5_Original ==
  (Decided /\ ev.r.idea.ok /\ ev.hasPrev /\ ev.prev._time >= 0
     /\ ev.r.idea.dir = ev.prev.dir /\ ev.r.idea.score = ev.prev.score)
  => cyc[ev.c].pc # "send"

\* C5 amended: an ok idea with the direction and score of the stored record
\* is announced again as a new idea (the tie favours the new idea); only a
\* strictly weaker ok idea is suppressed.
C5_UnchangedAnnouncedAgain ==
  (Decided /\ ev.r.idea.ok /\ ev.hasPrev
     /\ ev.r.idea.dir = ev.prev.dir /\ ev.r.idea.score = ev.prev.score)
  => /\ ev.act = "new"
     /\ cyc[ev.c].pc = "send"
     /\ cyc[ev.c].msg.kind = "new"
     /\ cyc[ev.c].msg.idea = ev.r.idea

\* the second cycle of the run recomputes the idea the first one stored
C5_Witness ==
  /\ Decided /\ ev.r.idea.ok /\ ev.hasPrev /\ ev.prev._time >= 0
  /\ ev.c = 2
  /\ ev.r.idea.dir = ev.prev.dir /\ ev.r.idea.score = ev.prev.score
  /\ ev.act = "new"

\* C6: at most one invocation of autoScanAll is in progress at any time.
Running == {k \in Slots : cyc[k].pc \notin {"idle", "done"}}
C6_NoOverlap == Cardinality(Running) <= 1

\* C7: a save of the last-signal map for one symbol leaves every other
\* symbol's stored record as it was (no record is lost or reverted by a save
\* of a map read earlier).
C7_NoLostUpdate ==
  ev.op = "send"
  => \A s \in DOMAIN ev.fileBefore \ {ev.symbol} :
       s \in DOMAIN lastSignalsFile /\ lastSignalsFile[s] = ev.fileBefore[s]

\* C8: an empty bar fetch for a coin writes nothing and does not end the
\* invocation: the next coin's analysis is awaited (after the last coin, the
\* watchlist pass is reached), and an invocation that returns without a send
\* having been rejected has been through the watchlist pass.
C8_EmptyFetchIsolated ==
  /\ (ev.op = "decide" /\ ev.act = "nodata")
     => /\ Untouched
        /\ ev.symbol \notin ev.end.analysed
        /\ ContinuesAfter(CoinIndex(ev.symbol))
  /\ (ev.op \in {"decide", "send", "wdecide", "wsend"}
        /\ ev.end.finished /\ ~ev.end.threw)
     => ev.end.watchPass

\* the second coin is analysed and announced in an invocation whose first
\* coin had no data
C8_Witness ==
  /\ Decided /\ ev.symbol = AUTO_COINS[2] /\ ev.act = "new"
  /\ AUTO_COINS[1] \notin ev.end.analysed
  /\ AUTO_COINS[2] \in ev.end.analysed

\* C9: a rejected send for one coin does not end the invocation: the coins
\* after it and the watchlist pass are still processed.
C9_FailureIsolated ==
  (ev.op = "send" /\ ~ev.delivered)
  => /\ ~ev.end.threw
     /\ ContinuesAfter(CoinIndex(ev.symbol))

\* C10: in the autoScanAll that catches send errors per message, a rejected
\* send of a new idea leaves the last-signal file and the history log as
\* they were.
C10_RecordOnlyWhenDelivered ==
  (catchSend /\ ev.op = "send" /\ ev.kind = "new" /\ ~ev.delivered)
  => Untouched

\* the pairs the watchlist pass of invocation k iterates
Queued(k) == {cyc[k].wq[j] : j \in 1..Len(cyc[k].wq)}
\* the step of ev took its invocation into the watchlist pass
EntersWatchPass ==
  ev.op \in {"start", "decide", "send"} /\ ev.end.watchPass
Subscriptions ==
  UNION {{<<u, watchFile[u][j]>> : j \in DOMAIN watchFile[u]}
         : u \in DOMAIN watchFile}

C12_HistoryBounded ==
  /\ Len(historyFile) <= 2000
  /\ call.op = "pushHistoryRecord"
     => /\ Len(historyFile) = IF Len(call.before) < 2000
                              THEN Len(call.before) + 1 ELSE 2000
        /\ historyFile[1] = call.rec
        /\ \A j \in 2..Len(historyFile) : historyFile[j] = call.before[j - 1]

\* a push onto a full log: its oldest entry is gone, the one before it is last
C12_Witness ==
  /\ call.op = "pushHistoryRecord"
  /\ Len(call.before) = 2000
  /\ Len(historyFile) = 2000
  /\ historyFile[1] = call.rec
  /\ historyFile[2000] = call.before[1999]
  /\ call.before[2000] # historyFile[2000]

Ind(b) == IF b THEN 1 ELSE 0
\* g with one of the four required signals made absent
OneAbsent(g) ==
  { [g EXCEPT !.bos = ""], [g EXCEPT !.fvg = FALSE],
    [g EXCEPT !.ob = [bullish |-> FALSE, bearish |-> FALSE]],
    [g EXCEPT !.liq = FALSE] }

\* C13: generateIdea returns ok exactly when a direction (BOS up or down),
\* an FVG, an order block of either polarity and a liquidity zone are all
\* present and the score is at least 6; with any one of the four made absent
\* and everything else kept, the result is not ok.
C13_OkIffConfluence ==
  call.op = "generateIdea"
  => /\ call.out.ok
          <=> /\ call.g.bos \in {"BOS_UP", "BOS_DOWN"}
              /\ call.g.fvg
              /\ call.g.ob.bullish \/ call.g.ob.bearish
              /\ call.g.liq
              /\ call.out.score >= 6
     /\ \A g2 \in OneAbsent(call.g) :
          ~generateIdea(AUTO_COINS[1], call.price, g2).ok

\* an ok idea without a candle pattern, from a bearish order block
C13_Witness ==
  /\ call.op = "generateIdea"
  /\ call.out.ok /\ call.out.dir = "SHORT" /\ call.out.score = 9
  /\ ~call.g.pattern /\ ~call.g.ob.bullish

\* C14: every ok idea generateIdea builds from a positive price has
\* tp > entry > sl when Long, tp < entry < sl when Short, and a risk-reward
\* ratio that is a number greater than 0.
C14_LevelsOrdered ==
  (call.op = "generateIdea" /\ call.out.ok /\ call.price > 0)
  => /\ call.out.dir = "LONG"
          => call.out.tp > call.out.entry /\ call.out.entry > call.out.sl
     /\ call.out.dir = "SHORT"
          => call.out.tp < call.out.entry /\ call.out.entry < call.out.sl
     /\ call.out.rr.kind = "number" /\ call.out.rr.x100 > 0

\* C15: scoreIdea is 3 for a BOS, 3 for an FVG, 2 for an order block of
\* either polarity, 1 for a liquidity zone and 1 for a candle pattern, added
\* up: an integer from 0 to 10.
C15_ScoreWeights ==
  call.op = "scoreIdea"
  => /\ call.out = 3 * Ind(call.g.bos # "") + 3 * Ind(call.g.fvg)
                    + 2 * Ind(call.g.ob.bullish \/ call.g.ob.bearish)
                    + 1 * Ind(call.g.liq) + 1 * Ind(call.g.pattern)
     /\ call.out \in 0..10

\* FVG, bearish order block and pattern without BOS or liquidity score 6
C15_Witness ==
  /\ call.op = "scoreIdea"
  /\ call.g.bos = "" /\ call.g.fvg /\ call.g.ob.bearish /\ ~call.g.ob.bullish
  /\ ~call.g.liq /\ call.g.pattern
  /\ call.out = 6

\* the newest bar of the call's candles
Newest == call.candles[Len(call.candles)]

\* C16: over a window of the last `lookback` bars, detectBOS returns BOS_UP
\* at the newest close when that close is above the high of every other bar
\* of the window, BOS_DOWN at it when it is below the low of every other bar,
\* and null when it is neither above all highs nor below all lows (equality
\* with the highest high or the lowest low is no signal).
C16_BreakOfStructure ==
  (call.op = "detectBOS" /\ Len(call.candles) >= call.lookback)
  => LET n == Len(call.candles)
         others == {call.candles[j] : j \in (n - call.lookback + 1)..(n - 1)}
         above == \A b \in others : Newest.close > b.high
         below == \A b \in others : Newest.close < b.low
     IN /\ above => call.out = [type |-> "BOS_UP", price |-> Newest.close]
        /\ below => call.out = [type |-> "BOS_DOWN", price |-> Newest.close]
        /\ (~above /\ ~below) => call.out = Null

\* the newest close is above the window's other bar but not above a bar
\* older than the window
C16_Witness ==
  /\ call.op = "detectBOS"
  /\ Len(call.candles) = 3 /\ call.lookback = 2
  /\ call.candles[1].high >= Newest.close
  /\ call.out.type = "BOS_UP"

\* bar i (counted from 0) has a gap against bar i - 2
GapUp(i) == call.candles[i + 1].low > call.candles[i - 1].high
GapDown(i) == call.candles[i + 1].high < call.candles[i - 1].low
Gaps == {i \in 2..(Len(call.candles) - 3) : GapUp(i) \/ GapDown(i)}

\* C17: detectFVG returns the gap at the largest index i in 2..len-3
\* (counted from 0) at which bar i and bar i-2 leave a gap: FVG_UP from
\* bar[i-2].high to bar[i].low, FVG_DOWN from bar[i].high to bar[i-2].low;
\* null when no such index has a gap.
C17_MostRecentGap ==
  call.op = "detectFVG"
  => IF Gaps = {} THEN call.out = Null
     ELSE \E i \in Gaps :
            /\ \A j \in Gaps : j <= i
            /\ call.out =
                 IF GapUp(i)
                 THEN [type |-> "FVG_UP", idx |-> i,
                       low |-> call.candles[i - 1].high,
                       high |-> call.candles[i + 1].low]
                 ELSE [type |-> "FVG_DOWN", idx |-> i,
                       low |-> call.candles[i + 1].high,
                       high |-> call.candles[i - 1].low]

\* an older gap up and a more recent gap down: the gap down is returned
C17_Witness ==
  /\ call.op = "detectFVG"
  /\ Len(call.candles) = 6
  /\ Gaps = {2, 3} /\ GapUp(2) /\ GapDown(3)
  /\ call.out.type = "FVG_DOWN" /\ call.out.idx = 3

\* positions of the 5 bars before the newest
ObWindow ==
  IF Len(call.candles) < 6 THEN {}
  ELSE (Len(call.candles) - 5)..(Len(call.candles) - 1)
BigBody(b) ==
  10 * Abs(b.close - b.open)
    > 6 * (IF b.high = b.low THEN 1 ELSE b.high - b.low)
Bullish == {j \in ObWindow : BigBody(call.candles[j])
                              /\ call.candles[j].close > call.candles[j].open}
Bearish == {j \in ObWindow : BigBody(call.candles[j])
                              /\ call.candles[j].close < call.candles[j].open}
Nearest(S) == IF S = {} THEN Null ELSE call.candles[SetMax(S)]

\* C18: detectOrderBlock looks at the 5 bars that end one bar before the
\* newest, and at no other; for each polarity it returns the latest of them
\* whose body is more than 0.6 of its range (bullish: close > open,
\* bearish: close < open), or null when none qualifies.
C18_OrderBlock ==
  call.op = "detectOrderBlock"
  => /\ call.out.bullish = Nearest(Bullish)
     /\ call.out.bearish = Nearest(Bearish)

\* 7 bars: the oldest (outside the window) and the newest are the only
\* falling ones, so there is no bearish block; of two rising bars in the
\* window the later one is the bullish block
C18_Witness ==
  /\ call.op = "detectOrderBlock"
  /\ Len(call.candles) = 7
  /\ call.candles[1].close < call.candles[1].open
  /\ Newest.close < Newest.open
  /\ Bullish = {2, 4}
  /\ call.out.bearish = Null
  /\ call.out.bullish.t = 4

\* the four classification rules on the last two bars
PatLastBar == call.candles[Len(call.candles)]
PatPrevBar == call.candles[Len(call.candles) - 1]
SmallBody ==
  10 * Abs(PatLastBar.close - PatLastBar.open)
    < 3 * (IF PatLastBar.high = PatLastBar.low THEN 1
           ELSE PatLastBar.high - PatLastBar.low)
UpperWick ==
  PatLastBar.high - SetMax({PatLastBar.open, PatLastBar.close})
LowerWick ==
  SetMin({PatLastBar.open, PatLastBar.close}) - PatLastBar.low
RuleHolds(rule) ==
  CASE rule = "ShootingStar" -> SmallBody /\ UpperWick > 2 * LowerWick
    [] rule = "Hammer" -> SmallBody /\ LowerWick > 2 * UpperWick
    [] rule = "BullishEngulfing" ->
         /\ PatLastBar.close > PatPrevBar.open
         /\ PatLastBar.open < PatPrevBar.close
         /\ PatLastBar.close > PatLastBar.open
    [] rule = "BearishEngulfing" ->
         /\ PatLastBar.close < PatPrevBar.open
         /\ PatLastBar.open > PatPrevBar.close
         /\ PatLastBar.close < PatLastBar.open
RuleOrder ==
  <<"ShootingStar", "Hammer", "BullishEngulfing", "BearishEngulfing">>
Holding == {k \in 1..4 : RuleHolds(RuleOrder[k])}

\* C19 as stated: on two well-formed bars at most one of the four rules
\* holds.
C19_Original ==
  (call.op = "detectCandlePattern" /\ Len(call.candles) >= 2)
  => Cardinality(Holding) <= 1

\* C19 amended: ShootingStar and Hammer exclude each other, and so do
\* BullishEngulfing and BearishEngulfing, but a wick rule and an engulfing
\* rule can hold together; the pattern returned is that of the first rule
\* that holds in the order ShootingStar, Hammer, BullishEngulfing,
\* BearishEngulfing, and null when none holds.
C19_FirstRuleWins ==
  (call.op = "detectCandlePattern" /\ Len(call.candles) >= 2)
  => /\ ~(1 \in Holding /\ 2 \in Holding)
     /\ ~(3 \in Holding /\ 4 \in Holding)
     /\ call.out = IF Holding = {} THEN "" ELSE RuleOrder[SetMin(Holding)]

\* a small rising body under a long upper wick that also engulfs the bar
\* before it: ShootingStar is returned
C19_Witness ==
  /\ call.op = "detectCandlePattern" /\ Len(call.candles) = 2
  /\ Holding = {1, 3}
  /\ call.out = "ShootingStar"

RECURSIVE VolSum(_, _)
\* volume of bars lo..hi of the call's candles
VolSum(lo, hi) ==
  IF lo > hi THEN 0 ELSE call.candles[hi].vol + VolSum(lo, hi - 1)

\* C20: detectLiquidityZone returns null on fewer than 20 bars; on 20 or
\* more it reports a zone exactly when the newest volume is more than 1.8
\* times the average volume of the last 30 bars (of all bars when there are
\* fewer), the newest bar included.
C20_LiquidityZone ==
  call.op = "detectLiquidityZone"
  => LET n == Len(call.candles)
         w == IF n > 30 THEN 30 ELSE n
     IN IF n < 20 THEN call.out = Null
        ELSE call.out # Null
               <=> 10 * w * Newest.vol > 18 * VolSum(n - w + 1, n)

\* C22: when the 15-minute fetch returns no bar, fullAnalysis returns
\* {ok: false, reason: 'no data'} and the cycle does nothing for the symbol:
\* no message is prepared (not even a re-announcement of a stronger, stale
\* record) and the last-signal file, the invocation's copy of the record and
\* the history log are as they were.
C22_NoDataNoAction ==
  /\ \A s \in CoinSet \cup WatchSymbols : fullAnalysis(s, <<>>) = NoData
  /\ (ev.op = "decide" /\ ev.noBars)
     => /\ ev.r = NoData
        /\ ev.act = "nodata"
        /\ cyc[ev.c].pc # "send"
        /\ cyc[ev.c].msg = <<>>
        /\ Untouched
        /\ (ev.hasPrev /\ cyc[ev.c].pc # "done")
             => cyc[ev.c].lastSignals[ev.symbol] = ev.prev

\* no bars for a symbol whose stored record is stronger than nothing and 9
\* minutes old
C22_Witness ==
  /\ ev.op = "decide" /\ ev.noBars
  /\ ev.hasPrev /\ Elapsed > 5
  /\ ev.act = "nodata"
  /\ lastSignalsFile[ev.symbol] = ev.prev

C23_BatchIsolated ==
  (ev.op = "wsend" /\ ~ev.delivered /\ ev.left > 0)
  => /\ ~ev.end.threw
     /\ cyc[ev.c].pc = "wfetch"
     /\ cyc[ev.c].wq[cyc[ev.c].i][1] # ev.to

\* C24: auto-collecting a chat that messages the bot grants no scan
\* permission: /scan from a chat that no /grant ever names (and that is not
\* the admin) is rejected, whatever messages came before, and records nothing.
C24_ScanNeedsGrant ==
  (ev.op = "scan" /\ ev.chat \notin GrantTargets \cup {ADMIN_ID})
  => ~ev.allowed /\ historyFile = ev.histBefore

\* C25: every started cycle eventually reaches its end, having gone through
\* every configured symbol and every watch subscription.
CycleOps == {"start", "decide", "send", "wdecide", "wsend"}
Started(k) == cyc[k].pc \notin {"idle", "done"}
Ended(k) == ev.op \in CycleOps /\ ev.c = k /\ ev.end.finished
C25_CycleCompletes ==
  \A k \in Slots :
    Started(k) ~> (Ended(k) /\ ev.end.watchPass /\ ~ev.end.threw)

Gate(g) ==
  g.bos # "" /\ g.fvg /\ (g.ob.bullish \/ g.ob.bearish) /\ g.liq
C27_FloorRedundant ==
  (\/ call.op = "generateIdea"
   \/ call.op = "generateIdeaBot" /\ call.threshold <= 9)
  => /\ call.out.ok => call.out.score \in {9, 10}
     /\ call.out.ok <=> Gate(call.g)

C27_Witness ==
  /\ call.op = "generateIdeaBot"
  /\ call.threshold = 9
  /\ call.out.ok
  /\ call.out.score = 9

\* C28: the last-signal store is per symbol: a step of the policy for symbol
\* A (its decision, or the save after its announcement) leaves the stored
\* record of every other symbol B as it was: present or absent as before, and
\* with the same fields.
RecordOf(file, s) == IF s \in DOMAIN file THEN <<file[s]>> ELSE <<>>
C28_PerSymbolFrame ==
  ev.op \in {"decide", "send"}
  => \A B \in CoinSet \ {ev.symbol} :
       RecordOf(lastSignalsFile, B) = RecordOf(ev.fileBefore, B)

\* C29: a delivered re-announcement (of either branch) moves only the time
\* stamp of the symbol's stored record: its direction, entry, stop, target,
\* score and note stay as stored, and the history log gets no entry.
C29_ResendOnlyRestamps ==
  (ev.op = "send" /\ ev.kind \in Resends /\ ev.delivered)
  => /\ ev.symbol \in DOMAIN ev.fileBefore
     /\ lastSignalsFile[ev.symbol]
          = [ev.fileBefore[ev.symbol] EXCEPT !._time = ev.at]
     /\ historyFile = ev.histBefore

\* C30: the score ratchet, over cycles that do not overlap: the score stored
\* for a symbol never decreases from one step to the next, and an ok idea of
\* score 9 is not announced as new for a symbol whose stored record has
\* score 10.
ScoreKept(s) ==
  s \in DOMAIN lastSignalsFile
  => /\ s \in DOMAIN lastSignalsFile'
     /\ lastSignalsFile'[s].score >= lastSignalsFile[s].score
C30_ScoreRatchet ==
  /\ [][\A s \in CoinSet : ScoreKept(s)]_vars
  /\ [](( /\ ev.op = "decide" /\ ev.r.ok /\ ev.r.idea.ok
          /\ ev.r.idea.score = 9
          /\ ev.symbol \in DOMAIN ev.fileBefore
          /\ ev.fileBefore[ev.symbol].score = 10 )
        => ev.act # "new")

C30_Witness ==
  /\ ev.op = "decide" /\ ev.r.ok /\ ev.r.idea.ok /\ ev.r.idea.score = 9
  /\ ev.symbol \in DOMAIN ev.fileBefore
  /\ ev.fileBefore[ev.symbol].score = 10
  /\ ev.at >= AUTO_INTERVAL_MIN
  /\ ev.act = "resend10"

\* C31: every entry of the last-signal map is an ok idea stored under its own
\* symbol; a result with ok = false is never stored.
C31_StoredIdeasOk ==
  \A s \in DOMAIN lastSignalsFile :
    lastSignalsFile[s].ok /\ lastSignalsFile[s].symbol = s

C31_Witness ==
  /\ ev.op = "send" /\ ev.kind = "new"
  /\ ev.symbol \notin DOMAIN ev.fileBefore
  /\ DOMAIN lastSignalsFile = CoinSet

\* C32: debounce spacing, over cycles that do not overlap: a re-announcement
\* of a symbol's stored idea is decided, and sent, strictly more than 5
\* minutes after the time stamp recorded for that symbol.
SinceRecorded == ev.at - ev.fileBefore[ev.symbol]._time
C32_DebounceSpacing ==
  (\/ ev.op = "decide" /\ ev.act \in Resends
   \/ ev.op = "send" /\ ev.kind \in Resends)
  => /\ ev.symbol \in DOMAIN ev.fileBefore
     /\ SinceRecorded > RESEND_NOT_OK_MIN

C32_Witness ==
  /\ ev.op = "send" /\ ev.kind = "resend5" /\ ev.delivered
  /\ SinceRecorded = RESEND_NOT_OK_MIN + 1
  /\ lastSignalsFile[ev.symbol]._time = ev.at

\* C33: a manual /scan, whatever its outcome, leaves the last-signal file
\* and every running cycle's copy of it as they were.
C33_ScanKeepsSignals ==
  ev.op = "manual"
  => /\ lastSignalsFile = ev.fileBefore
     /\ \A k \in Slots : cyc[k].lastSignals = ev.copiesBefore[k]

C33_Witness ==
  /\ ev.op = "manual" /\ ev.allowed
  /\ ev.r.ok /\ ev.r.idea.ok /\ ev.r.idea.score = 10
  /\ ev.symbol \in DOMAIN ev.fileBefore
  /\ ev.fileBefore[ev.symbol].score = 9
  /\ historyFile # ev.histBefore

\* C34: in the rotating scheduler, any N consecutive in-hours invocations of
\* autoCycle (N the number of configured coins) take every configured coin
\* exactly once, each coin followed by the next of the configured list (the
\* first after the last), however many out-of-hours invocations lie between;
\* an out-of-hours invocation leaves the rotation index alone.
InHoursCoins == SelectSeq(call.log, LAMBDA e : e.inHours)
Successor(coin) == AUTO_COINS[(CoinIndex(coin) % Len(AUTO_COINS)) + 1]
C34_RotationCoversAll ==
  call.op = "autoCycle"
  => LET h == InHoursCoins
         N == Len(AUTO_COINS)
     IN /\ \A j \in 1..(Len(h) - N + 1) :
             /\ {h[j + d].coin : d \in 0..(N - 1)} = CoinSet
             /\ \A d \in 0..(N - 2) :
                  h[j + d + 1].coin = Successor(h[j + d].coin)
        /\ (ev.op = "autoCycle" /\ ~ev.inHours)
           => rotateIndex = ev.indexBefore

C34_Witness ==
  /\ call.op = "autoCycle"
  /\ Len(call.log) = MaxCycles
  /\ call.log[1].inHours /\ ~call.log[2].inHours /\ ~call.log[3].inHours
  /\ call.log[4].inHours
  /\ call.log[1].coin # call.log[4].coin

\* C35: a /grant or /revoke from a sender other than the admin leaves
\* perms.users as it was.
C35_AdminOnly ==
  (ev.op \in {"grant", "revoke"} /\ ev.from # ADMIN_ID)
  => permsUsers = ev.usersBefore

C35_Witness ==
  /\ ev.op = "revoke" /\ ev.from # ADMIN_ID
  /\ InSeq(ev.target, permsUsers)
  /\ ev.target # ev.from

\* C36: no watchlist holds a symbol twice, whatever /watch add and /watch rm
\* commands came, so the pairs (user, symbol) one cycle's watchlist pass
\* goes through are all different: at most one alert per pair and cycle.
NoDup(q) == \A i, j \in DOMAIN q : q[i] = q[j] => i = j
C36_NoDuplicateWatch ==
  /\ \A u \in DOMAIN watchFile : NoDup(watchFile[u])
  /\ \A k \in Slots : NoDup(cyc[k].wq)

C36_Witness ==
  /\ ev.op = "watchadd" /\ ev.allowed
  /\ InSeq(ev.symbol, ev.listBefore)
  /\ Len(ev.listBefore) = 2
  /\ \E k \in Slots : cyc[k].pc = "wsend" /\ Len(cyc[k].wq) = 2
====
